---- MODULE Spec2Model ----
(***************************************************************************)
(* Model of rodis' hash command family (command/hash.go) on top of the     *)
(* hash storage operations (storage/hash.go).                              *)
(*                                                                         *)
(* Byte strings are sequences of byte values (0..255).  The LevelDB store   *)
(* is one flat map from encoded keys to values; every handler is a         *)
(* sequence of steps, one per storage call, taken while the handler holds  *)
(* the database lock.                                                      *)
(***************************************************************************)
EXTENDS Integers, Sequences, FiniteSets, TLC

\* ------------------------------------------------------------------ bounds

\* Number of connections (goroutines) running handlers in SpecConc.
NProc == 2
\* Longest field list given to hdel / hmget, and most pairs given to hmset.
MaxFields == 2
\* Width of the signed integer of strconv.ParseInt(s, 10, 64), scaled down.
IntBits == 2
\* Largest magnitude hincrbyfloat is let to produce (floats do not wrap).
FloatCap == 2

\* ------------------------------------------------------------ byte strings

\* storage.ValuePrefix, '-' ("-Key|Field")
ValuePrefix == 45
\* storage.MetaPrefix, '+'
MetaPrefix == 43
\* storage.Seperator, '|'
Seperator == 124
\* resp.Hash and resp.String, the type tags kept in the metadata entry
Hash == 104
String == 115

KeyA == <<97>>
KeyAB == <<97, 124, 98>>
Keys == {KeyA, KeyAB}

FieldF == <<102>>
FieldBF == <<98, 124, 102>>
Fields == {FieldF, FieldBF}

ValEmpty == <<>>
ValX == <<120>>
ValOne == <<49>>
ValMinusOne == <<45, 49>>
Values == {ValEmpty, ValX, ValOne}
Deltas == {ValOne, ValMinusOne, ValX}

IsPrefix(p, s) == Len(p) <= Len(s) /\ SubSeq(s, 1, Len(p)) = p

\* bytes.Compare(a, b) < 0, the order of the store's keys
RECURSIVE LexLess(_, _)
LexLess(a, b) ==
    IF b = <<>> THEN FALSE
    ELSE IF a = <<>> THEN TRUE
    ELSE IF Head(a) # Head(b) THEN Head(a) < Head(b)
    ELSE LexLess(Tail(a), Tail(b))

\* The elements of a set of byte strings in the store's key order.
RECURSIVE SortKeys(_)
SortKeys(S) ==
    IF S = {} THEN <<>>
    ELSE LET m == CHOOSE x \in S : \A y \in S \ {x} : LexLess(x, y)
         IN <<m>> \o SortKeys(S \ {m})

\* strings.IndexByte(s, c), 1-based; 0 when c does not occur
IndexByte(s, c) ==
    IF \E i \in 1..Len(s) : s[i] = c
    THEN CHOOSE i \in 1..Len(s) : s[i] = c /\ \A j \in 1..(i - 1) : s[j] # c
    ELSE 0

Range(s) == {s[i] : i \in 1..Len(s)}

\* ---------------------------------------------------------------- encoding

encodeMetaKey(key) == <<MetaPrefix>> \o key

encodeMetadata(tipe) == <<tipe>>

encodeFieldKey(key, field) == <<ValuePrefix>> \o key \o <<Seperator>> \o field

\* ------------------------------------------------------------------- store

\* ldb.get: the value stored under an encoded key, empty when there is none
get(d, k) == IF k \in DOMAIN d THEN d[k] ELSE <<>>

\* ldb.delete: one batch deleting every key of ks
delete(d, ks) == [k \in (DOMAIN d) \ ks |-> d[k]]

\* db.Write(batch): one batch of puts, b a map from encoded key to value
write(d, b) == [k \in (DOMAIN d) \cup (DOMAIN b) |->
                   IF k \in DOMAIN b THEN b[k] ELSE d[k]]

\* ldb.Has: (exists, type) by metadata lookup
Has(d, key) ==
    LET m == encodeMetaKey(key)
    IN IF m \in DOMAIN d THEN [exists |-> TRUE, tipe |-> d[m][1]]
       ELSE [exists |-> FALSE, tipe |-> 0]

\* NewIterator(util.BytesPrefix(prefix)): the keys of the scan, in key order
BytesPrefix(d, prefix) == {k \in DOMAIN d : IsPrefix(prefix, k)}

Iterate(d, prefix) == SortKeys(BytesPrefix(d, prefix))

\* iter.Key()[sepIndex+1:], the field name the scans recover from a key
FieldOfKey(k) == SubSeq(k, IndexByte(k, Seperator) + 1, Len(k))

PutHash(d, key, tipe, hash) ==
    write(d, [k \in {encodeMetaKey(key)} \cup
                    {encodeFieldKey(key, f) : f \in DOMAIN hash} |->
                 IF k = encodeMetaKey(key) THEN encodeMetadata(tipe)
                 ELSE LET f == CHOOSE g \in DOMAIN hash : encodeFieldKey(key, g) = k
                      IN hash[f]])

\* A DeleteHash that deletes the metadata entry and the field entries in
\* two calls of ldb.delete
DeleteHashStepsMetaFirst(d, key) ==
    LET hashPrefix == encodeFieldKey(key, <<>>)
    IN <<d, delete(d, {encodeMetaKey(key)}),
         delete(d, {encodeMetaKey(key)} \cup BytesPrefix(d, hashPrefix))>>

\* DeleteHash: the store before its call, and after each ldb.delete it
\* makes. It collects the metadata key and every key of the prefix scan,
\* and deletes them in one call.
DeleteHashSteps(d, key) ==
    LET hashPrefix == encodeFieldKey(key, <<>>)
        keys == {encodeMetaKey(key)} \cup BytesPrefix(d, hashPrefix)
    IN <<d, delete(d, keys)>>

\* The store DeleteHash leaves
DeleteHash(d, key) == DeleteHashSteps(d, key)[Len(DeleteHashSteps(d, key))]

GetHashAsArray(d, key) ==
    LET it == Iterate(d, encodeFieldKey(key, <<>>))
    IN [i \in 1..Len(it) |-> [Key |-> FieldOfKey(it[i]), Value |-> d[it[i]]]]

GetFieldNames(d, key) ==
    LET it == Iterate(d, encodeFieldKey(key, <<>>))
    IN [i \in 1..Len(it) |-> FieldOfKey(it[i])]

GetFields(d, key, fields) ==
    [f \in Range(fields) |-> get(d, encodeFieldKey(key, f))]

GetFieldsAsArray(d, key, fields) ==
    [i \in 1..Len(fields) |->
        [Key |-> fields[i], Value |-> get(d, encodeFieldKey(key, fields[i]))]]

\* DeleteFields, first step: the batch deleting the named field entries
DeleteFieldsBatch(d, key, fields) ==
    delete(d, {encodeFieldKey(key, f) : f \in Range(fields)})

\* A DeleteFields that forgets the metadata entry
DeleteFieldsMetaNever(d, key) == d

\* DeleteFields, second step: drop the metadata entry when the scan is empty
DeleteFieldsMeta(d, key) ==
    IF BytesPrefix(d, encodeFieldKey(key, <<>>)) = {}
    THEN delete(d, {encodeMetaKey(key)})
    ELSE d

\* ----------------------------------------------------------------- strconv

IsDigit(c) == c >= 48 /\ c <= 57

RECURSIVE DigitsValue(_, _)
DigitsValue(s, acc) ==
    IF s = <<>> THEN acc ELSE DigitsValue(Tail(s), acc * 10 + (Head(s) - 48))

MinInt == -(2 ^ (IntBits - 1))
MaxInt == 2 ^ (IntBits - 1) - 1

\* The syntax strconv accepts in base 10: an optional sign and digits.
\* [ok, val]: val is the number when ok.
ParseDecimal(s) ==
    LET signed == s # <<>> /\ Head(s) \in {43, 45}
        digits == IF signed THEN Tail(s) ELSE s
    IN IF digits = <<>> \/ \E i \in 1..Len(digits) : ~IsDigit(digits[i])
       THEN [ok |-> FALSE, val |-> 0]
       ELSE [ok |-> TRUE,
             val |-> IF signed /\ Head(s) = 45 THEN -DigitsValue(digits, 0)
                     ELSE DigitsValue(digits, 0)]

\* strconv.ParseInt(s, 10, 64): a syntax error or a value out of range fails
ParseInt(s) ==
    LET r == ParseDecimal(s)
    IN IF r.ok /\ r.val >= MinInt /\ r.val <= MaxInt THEN r
       ELSE [ok |-> FALSE, val |-> 0]

\* strconv.ParseFloat(s, 64), on the strings of the model (no point, no
\* exponent): whole numbers, which a float64 holds exactly
ParseFloat(s) == ParseDecimal(s)

\* Two's complement wrap of the machine integer
WrapInt(n) == ((n - MinInt) % (2 ^ IntBits)) + MinInt

RECURSIVE DigitsOf(_)
DigitsOf(n) ==
    IF n < 10 THEN <<48 + n>> ELSE DigitsOf(n \div 10) \o <<48 + (n % 10)>>

\* strconv.FormatInt(n, 10)
FormatInt(n) == IF n < 0 THEN <<45>> \o DigitsOf(-n) ELSE DigitsOf(n)

\* strconv.FormatFloat(f, 'f', -1, 64) of a whole number
FormatFloat(n) == FormatInt(n)

\* ----------------------------------------------------------------- replies

Reply(t, n, b, arr) == [t |-> t, n |-> n, b |-> b, arr |-> arr]

Integer(n) == Reply("int", n, <<>>, <<>>)
ZeroInteger == Integer(0)
OneInteger == Integer(1)
NilBulkString == Reply("nil", 0, <<>>, <<>>)
BulkString(b) == Reply("bulk", 0, b, <<>>)
Array(arr) == Reply("array", 0, <<>>, arr)
EmptyArray == Array(<<>>)
OkSimpleString == Reply("ok", 0, <<>>, <<>>)
\* resp.NewError(kind): the error kinds of the handlers
\* resp.NewError(ErrFmtWrongNumberArgument, name): the error names the command
ErrWrongNumberArgument(name) == Reply("ErrWrongNumberArgument", 0, name, <<>>)
NameHdel == <<104, 100, 101, 108>>
NameHmget == <<104, 109, 103, 101, 116>>
NameHmset == <<104, 109, 115, 101, 116>>
ErrWrongType == Reply("ErrWrongType", 0, <<>>, <<>>)
ErrNotValidInt == Reply("ErrNotValidInt", 0, <<>>, <<>>)
ErrNotValidFloat == Reply("ErrNotValidFloat", 0, <<>>, <<>>)
NoReply == Reply("none", 0, <<>>, <<>>)

IsError(r) == r.t \in {"ErrWrongNumberArgument", "ErrWrongType",
                       "ErrNotValidInt", "ErrNotValidFloat"}

\* ------------------------------------------------------------------- state

VARIABLES
    db,     \* the LevelDB store: encoded key -> value
    lock,   \* the database's RWMutex: per connection "", "R" or "W"
    pc,     \* per connection, the handler's position
    cmd,    \* per connection, the command being handled
    v,      \* per connection, the command's arguments (v[1] is the key)
    loc,    \* per connection, the handler's local variables
    out,    \* per connection, the reply written to ex.Buffer
    pre     \* per connection, the store as it was when the handler began

vars == <<db, lock, pc, cmd, v, loc, out, pre>>

Procs == 1..NProc

NoLoc == [hash |-> <<>>, count |-> 0, fieldExists |-> FALSE, newVal |-> 0]

WriteCmds == {"hdel", "hincrby", "hincrbyfloat", "hmset", "hset", "hsetnx"}
ReadCmds == {"hexists", "hget", "hgetall", "hkeys", "hvals", "hlen", "hmget",
             "hstrlen"}

\* Sequences over S of length lo..hi
SeqsOf(S, lo, hi) == UNION {[1..n -> S] : n \in lo..hi}

\* field1 value1 field2 value2 ... of a sequence of <<field, value>> pairs
RECURSIVE Flatten(_)
Flatten(ps) == IF ps = <<>> THEN <<>> ELSE Head(ps) \o Flatten(Tail(ps))

Call(c, a) == [cmd |-> c, v |-> a]

\* The commands a connection may send: every handler with the argument
\* count its dispatch entry accepts, the variadic ones with lo..n fields or
\* pairs and, when lo = 0, hmset also with a field that lacks its value.
CallsOver(K, F, V, D, lo, n) ==
    {Call(c, <<k, f>>) : c \in {"hexists", "hget", "hstrlen"}, k \in K, f \in F}
    \cup {Call(c, <<k>>) : c \in {"hgetall", "hkeys", "hvals", "hlen"}, k \in K}
    \cup {Call(c, <<k, f, d>>) :
            c \in {"hincrby", "hincrbyfloat"}, k \in K, f \in F, d \in D}
    \cup {Call(c, <<k, f, x>>) : c \in {"hset", "hsetnx"}, k \in K, f \in F, x \in V}
    \cup {Call(c, <<k>> \o fs) :
            c \in {"hdel", "hmget"}, k \in K, fs \in SeqsOf(F, lo, n)}
    \cup {Call("hmset", <<k>> \o Flatten(ps)) :
            k \in K, ps \in SeqsOf(F \X (V \ {ValOne}), lo, n)}
    \cup {Call("hmset", <<k, f>>) : k \in K, f \in F, i \in 1..(1 - lo)}

Calls == CallsOver(Keys, Fields, Values, Deltas, 0, MaxFields)

\* The commands of the concurrent specification: one field, one value, and
\* arguments every handler accepts.
ConcCalls == CallsOver(Keys, {FieldBF}, {ValX}, {ValOne}, 1, 1)

\* The empty database, or one holding a key of another type (a string).
Init ==
    /\ db \in {<<>>} \cup {[m \in {encodeMetaKey(k)} |-> encodeMetadata(String)] :
                            k \in Keys}
    /\ lock = [p \in Procs |-> ""]
    /\ pc = [p \in Procs |-> "idle"]
    /\ cmd = [p \in Procs |-> ""]
    /\ v = [p \in Procs |-> <<>>]
    /\ loc = [p \in Procs |-> NoLoc]
    /\ out = [p \in Procs |-> NoReply]
    /\ pre = [p \in Procs |-> <<>>]

\* ------------------------------------------------------------------- steps

\* What hincrbyfloat(a) would store next; the dispatch below draws only the
\* increments that stay within FloatCap.
FloatWithinCap(a) ==
    LET cur == ParseFloat(get(db, encodeFieldKey(a[1], a[2])))
        by == ParseFloat(a[3])
    IN ~(cur.ok /\ by.ok) \/ (cur.val + by.val \in (-FloatCap)..FloatCap)

\* The dispatcher hands a command and its arguments to the handler.
Dispatch(p, c) ==
    /\ pc[p] = "idle"
    /\ c.cmd = "hincrbyfloat" => FloatWithinCap(c.v)
    /\ pc' = [pc EXCEPT ![p] = "start"]
    /\ cmd' = [cmd EXCEPT ![p] = c.cmd]
    /\ v' = [v EXCEPT ![p] = c.v]
    /\ UNCHANGED <<db, lock, loc, out, pre>>

\* A slip that takes the shared lock in hset as the read handlers do
LockKindHsetShared(c) == IF c \in WriteCmds \ {"hset"} THEN "W" ELSE "R"

\* A slip that takes the shared lock in hincrby
LockKindHincrbyShared(c) == IF c \in WriteCmds \ {"hincrby"} THEN "W" ELSE "R"

\* ex.DB.Lock() in the write handlers, ex.DB.RLock() in the read handlers
LockKind(c) == IF c \in WriteCmds THEN "W" ELSE "R"

\* sync.RWMutex. lock[p] is "W" or "R" while p holds the write or the read
\* lock, "w" while p is inside Lock() and has announced itself to the
\* readers, "r" while p is inside RLock() and queued behind a writer.

\* rw.w, the mutex among writers: no other handler is inside Lock() or
\* holds the write lock.
NoWriter(p) == \A q \in Procs \ {p} : lock[q] \notin {"w", "W"}

\* No other handler holds the read lock.
NoReader(p) == \A q \in Procs \ {p} : lock[q] # "R"

\* Lock returns once rw.w is taken and the readers have left; RLock returns
\* when no writer has announced itself, or when the writer it queued behind
\* has unlocked and passed the read lock on.
CanLock(p, kind) ==
    IF kind = "W" THEN NoWriter(p) /\ NoReader(p)
    ELSE lock[p] = "R" \/ NoWriter(p)

\* The handler calls Lock / RLock. Either the call returns and the handler
\* goes on to its first storage call, or the call blocks: a writer that got
\* rw.w announces itself and waits for the readers to leave, a reader
\* queues behind the writer. A writer waiting for rw.w has no step.
Acquire(p) ==
    /\ UNCHANGED <<db, cmd, v, loc, out>>
    /\ IF CanLock(p, LockKind(cmd[p]))
       THEN /\ lock' = [lock EXCEPT ![p] = LockKind(cmd[p])]
            /\ pre' = [pre EXCEPT ![p] = db]
            /\ pc' = [pc EXCEPT ![p] = "has"]
       ELSE /\ lock[p] = ""
            /\ LockKind(cmd[p]) = "W" => NoWriter(p)
            /\ lock' = [lock EXCEPT ![p] = IF LockKind(cmd[p]) = "W"
                                           THEN "w" ELSE "r"]
            /\ UNCHANGED <<pc, pre>>

\* Unlock / RUnlock of p, if it holds the lock: Unlock passes the read lock
\* to the readers queued behind the writer.
Unlocked(p) ==
    [q \in Procs |->
        IF q = p THEN ""
        ELSE IF lock[p] = "W" /\ lock[q] = "r" THEN "R"
        ELSE lock[q]]

\* The handler goes on to its next storage call, with new locals.
Goto(p, label, l) ==
    /\ pc' = [pc EXCEPT ![p] = label]
    /\ loc' = [loc EXCEPT ![p] = l]
    /\ UNCHANGED <<lock, cmd, v, out, pre>>

\* The handler refuses its arguments: it replies without taking the lock.
Reject(p, reply) ==
    /\ pc' = [pc EXCEPT ![p] = "done"]
    /\ out' = [out EXCEPT ![p] = reply]
    /\ pre' = [pre EXCEPT ![p] = db]
    /\ UNCHANGED <<db, lock, cmd, v, loc>>

\* A handler that leaves out the type check
WrongTypeNever(h) == FALSE

\* if keyExists && tipe != resp.Hash: the key holds another type
WrongType(h) == h.exists /\ h.tipe # Hash

\* return reply.WriteTo(ex.Buffer): the reply is written; the deferred
\* unlock runs in Return.
Finish(p, reply) ==
    /\ pc' = [pc EXCEPT ![p] = "done"]
    /\ out' = [out EXCEPT ![p] = reply]
    /\ UNCHANGED <<lock, cmd, v, loc, pre>>

\* An unlock written at the end of the handler and not deferred: a handler
\* that returns early with an error reply keeps its lock.
ReturnUnlockAtEnd(p) ==
    /\ pc[p] = "done"
    /\ lock' = IF out[p].t \in {"ErrWrongType", "ErrNotValidInt", "ErrNotValidFloat"}
               THEN lock ELSE Unlocked(p)
    /\ pc' = [pc EXCEPT ![p] = "idle"]
    /\ cmd' = [cmd EXCEPT ![p] = ""]
    /\ v' = [v EXCEPT ![p] = <<>>]
    /\ loc' = [loc EXCEPT ![p] = NoLoc]
    /\ out' = [out EXCEPT ![p] = NoReply]
    /\ pre' = [pre EXCEPT ![p] = <<>>]
    /\ UNCHANGED db

\* The handler returns: its deferred Unlock / RUnlock runs, if it locked.
Return(p) ==
    /\ pc[p] = "done"
    /\ lock' = Unlocked(p)
    /\ pc' = [pc EXCEPT ![p] = "idle"]
    /\ cmd' = [cmd EXCEPT ![p] = ""]
    /\ v' = [v EXCEPT ![p] = <<>>]
    /\ loc' = [loc EXCEPT ![p] = NoLoc]
    /\ out' = [out EXCEPT ![p] = NoReply]
    /\ pre' = [pre EXCEPT ![p] = <<>>]
    /\ UNCHANGED db

key(p) == v[p][1]

\* ---------------------------------------------------------------- handlers

\* Number of requested fields whose looked-up value is not empty
CountNonEmpty(hash) == Cardinality({f \in DOMAIN hash : Len(hash[f]) # 0})

\* A field argument left out of hdel
hdelArgsWrongNever(a) == FALSE

\* if len(v) < 2
hdelArgsWrong(a) == Len(a) < 2

hdel(p) ==
    /\ cmd[p] = "hdel"
    /\ CASE pc[p] = "start" ->
              IF hdelArgsWrong(v[p])
              THEN Reject(p, ErrWrongNumberArgument(NameHdel))
              ELSE Acquire(p)
         [] pc[p] = "has" ->
              LET h == Has(db, key(p))
              IN /\ UNCHANGED db
                 /\ IF ~h.exists THEN Finish(p, ZeroInteger)
                    ELSE IF WrongType(h) THEN Finish(p, ErrWrongType)
                    ELSE Goto(p, "get", loc[p])
         [] pc[p] = "get" ->
              LET hash == GetFields(db, key(p), Tail(v[p]))
              IN /\ UNCHANGED db
                 /\ Goto(p, "del1", [loc[p] EXCEPT !.hash = hash,
                                                   !.count = CountNonEmpty(hash)])
         [] pc[p] = "del1" ->
              /\ db' = DeleteFieldsBatch(db, key(p), Tail(v[p]))
              /\ Goto(p, "del2", loc[p])
         [] pc[p] = "del2" ->
              /\ db' = DeleteFieldsMeta(db, key(p))
              /\ Finish(p, Integer(loc[p].count))
         [] OTHER -> FALSE

hexists(p) ==
    /\ cmd[p] = "hexists"
    /\ CASE pc[p] = "start" -> Acquire(p)
         [] pc[p] = "has" ->
              LET h == Has(db, key(p))
              IN /\ UNCHANGED db
                 /\ IF WrongType(h) THEN Finish(p, ErrWrongType)
                    ELSE Goto(p, "get", loc[p])
         [] pc[p] = "get" ->
              LET hash == GetFields(db, key(p), <<v[p][2]>>)
              IN /\ UNCHANGED db
                 /\ IF Len(hash[v[p][2]]) = 0 THEN Finish(p, ZeroInteger)
                    ELSE Finish(p, OneInteger)
         [] OTHER -> FALSE

hget(p) ==
    /\ cmd[p] = "hget"
    /\ CASE pc[p] = "start" -> Acquire(p)
         [] pc[p] = "has" ->
              LET h == Has(db, key(p))
              IN /\ UNCHANGED db
                 /\ IF ~h.exists THEN Finish(p, NilBulkString)
                    ELSE IF WrongType(h) THEN Finish(p, ErrWrongType)
                    ELSE Goto(p, "get", loc[p])
         [] pc[p] = "get" ->
              LET hash == GetFields(db, key(p), <<v[p][2]>>)
              IN /\ UNCHANGED db
                 /\ IF Len(hash[v[p][2]]) = 0 THEN Finish(p, NilBulkString)
                    ELSE Finish(p, BulkString(hash[v[p][2]]))
         [] OTHER -> FALSE

\* arr = append(arr, BulkString(field.Key), BulkString(field.Value))
RECURSIVE KeysAndValues(_)
KeysAndValues(fs) ==
    IF fs = <<>> THEN <<>>
    ELSE <<BulkString(Head(fs).Key), BulkString(Head(fs).Value)>>
         \o KeysAndValues(Tail(fs))

hgetall(p) ==
    /\ cmd[p] = "hgetall"
    /\ CASE pc[p] = "start" -> Acquire(p)
         [] pc[p] = "has" ->
              LET h == Has(db, key(p))
              IN /\ UNCHANGED db
                 /\ IF ~h.exists THEN Finish(p, EmptyArray)
                    ELSE IF WrongType(h) THEN Finish(p, ErrWrongType)
                    ELSE Goto(p, "get", loc[p])
         [] pc[p] = "get" ->
              /\ UNCHANGED db
              /\ Finish(p, Array(KeysAndValues(GetHashAsArray(db, key(p)))))
         [] OTHER -> FALSE

\* A hincrby that stores the delta before it validates the stored value
hincrbyGetWriteFirst(p) ==
    LET hash == GetFields(db, key(p), <<v[p][2]>>)
        by == ParseInt(v[p][3]).val
        i == ParseInt(hash[v[p][2]])
        newVal == IF Len(hash[v[p][2]]) = 0 THEN by ELSE WrapInt(i.val + by)
    IN IF Len(hash[v[p][2]]) # 0 /\ ~i.ok
       THEN /\ db' = PutHash(db, key(p), Hash,
                             [hash EXCEPT ![v[p][2]] = FormatInt(by)])
            /\ Finish(p, ErrNotValidInt)
       ELSE /\ UNCHANGED db
            /\ Goto(p, "put",
                    [loc[p] EXCEPT
                       !.hash = [hash EXCEPT ![v[p][2]] = FormatInt(newVal)],
                       !.newVal = newVal])

\* hincrby, from GetFields to the new value: a stored value that does not
\* parse ends the handler before anything is written
hincrbyGet(p) ==
    LET hash == GetFields(db, key(p), <<v[p][2]>>)
        by == ParseInt(v[p][3]).val
        i == ParseInt(hash[v[p][2]])
        newVal == IF Len(hash[v[p][2]]) = 0 THEN by ELSE WrapInt(i.val + by)
    IN /\ UNCHANGED db
       /\ IF Len(hash[v[p][2]]) # 0 /\ ~i.ok
          THEN Finish(p, ErrNotValidInt)
          ELSE Goto(p, "put",
                    [loc[p] EXCEPT
                       !.hash = [hash EXCEPT ![v[p][2]] = FormatInt(newVal)],
                       !.newVal = newVal])

hincrby(p) ==
    /\ cmd[p] = "hincrby"
    /\ CASE pc[p] = "start" ->
              IF ~ParseInt(v[p][3]).ok
              THEN Reject(p, ErrNotValidInt)
              ELSE Acquire(p)
         [] pc[p] = "has" ->
              LET h == Has(db, key(p))
              IN /\ UNCHANGED db
                 /\ IF WrongType(h) THEN Finish(p, ErrWrongType)
                    ELSE Goto(p, "get", loc[p])
         [] pc[p] = "get" -> hincrbyGet(p)
         [] pc[p] = "put" ->
              /\ db' = PutHash(db, key(p), Hash, loc[p].hash)
              /\ Finish(p, Integer(loc[p].newVal))
         [] OTHER -> FALSE

hincrbyfloat(p) ==
    /\ cmd[p] = "hincrbyfloat"
    /\ CASE pc[p] = "start" ->
              IF ~ParseFloat(v[p][3]).ok
              THEN Reject(p, ErrNotValidInt)
              ELSE Acquire(p)
         [] pc[p] = "has" ->
              LET h == Has(db, key(p))
              IN /\ UNCHANGED db
                 /\ IF WrongType(h) THEN Finish(p, ErrWrongType)
                    ELSE Goto(p, "get", loc[p])
         [] pc[p] = "get" ->
              LET hash == GetFields(db, key(p), <<v[p][2]>>)
                  by == ParseFloat(v[p][3]).val
                  f == ParseFloat(hash[v[p][2]])
                  newVal == IF Len(hash[v[p][2]]) = 0 THEN by ELSE f.val + by
              IN /\ UNCHANGED db
                 /\ IF Len(hash[v[p][2]]) # 0 /\ ~f.ok
                    THEN Finish(p, ErrNotValidFloat)
                    ELSE Goto(p, "put",
                              [loc[p] EXCEPT
                                 !.hash = [hash EXCEPT ![v[p][2]] = FormatFloat(newVal)],
                                 !.newVal = newVal])
         [] pc[p] = "put" ->
              /\ db' = PutHash(db, key(p), Hash, loc[p].hash)
              /\ Finish(p, BulkString(loc[p].hash[v[p][2]]))
         [] OTHER -> FALSE

hkeys(p) ==
    /\ cmd[p] = "hkeys"
    /\ CASE pc[p] = "start" -> Acquire(p)
         [] pc[p] = "has" ->
              LET h == Has(db, key(p))
              IN /\ UNCHANGED db
                 /\ IF ~h.exists THEN Finish(p, EmptyArray)
                    ELSE IF WrongType(h) THEN Finish(p, ErrWrongType)
                    ELSE Goto(p, "get", loc[p])
         [] pc[p] = "get" ->
              LET fields == GetFieldNames(db, key(p))
              IN /\ UNCHANGED db
                 /\ Finish(p, Array([i \in 1..Len(fields) |-> BulkString(fields[i])]))
         [] OTHER -> FALSE

hvals(p) ==
    /\ cmd[p] = "hvals"
    /\ CASE pc[p] = "start" -> Acquire(p)
         [] pc[p] = "has" ->
              LET h == Has(db, key(p))
              IN /\ UNCHANGED db
                 /\ IF ~h.exists THEN Finish(p, EmptyArray)
                    ELSE IF WrongType(h) THEN Finish(p, ErrWrongType)
                    ELSE Goto(p, "get", loc[p])
         [] pc[p] = "get" ->
              LET hash == GetHashAsArray(db, key(p))
              IN /\ UNCHANGED db
                 /\ Finish(p, Array([i \in 1..Len(hash) |-> BulkString(hash[i].Value)]))
         [] OTHER -> FALSE

hlen(p) ==
    /\ cmd[p] = "hlen"
    /\ CASE pc[p] = "start" -> Acquire(p)
         [] pc[p] = "has" ->
              LET h == Has(db, key(p))
              IN /\ UNCHANGED db
                 /\ IF ~h.exists THEN Finish(p, ZeroInteger)
                    ELSE IF WrongType(h) THEN Finish(p, ErrWrongType)
                    ELSE Goto(p, "get", loc[p])
         [] pc[p] = "get" ->
              /\ UNCHANGED db
              /\ Finish(p, Integer(Len(GetFieldNames(db, key(p)))))
         [] OTHER -> FALSE

hmget(p) ==
    /\ cmd[p] = "hmget"
    /\ CASE pc[p] = "start" ->
              IF Len(v[p]) < 2
              THEN Reject(p, ErrWrongNumberArgument(NameHmget))
              ELSE Acquire(p)
         [] pc[p] = "has" ->
              LET h == Has(db, key(p))
              IN /\ UNCHANGED db
                 /\ IF WrongType(h) THEN Finish(p, ErrWrongType)
                    ELSE Goto(p, "get", loc[p])
         [] pc[p] = "get" ->
              LET hash == GetFieldsAsArray(db, key(p), Tail(v[p]))
              IN /\ UNCHANGED db
                 /\ Finish(p, Array([i \in 1..Len(hash) |->
                                       IF Len(hash[i].Value) = 0 THEN NilBulkString
                                       ELSE BulkString(hash[i].Value)]))
         [] OTHER -> FALSE

\* hash[string(v[i])] = v[i+1] for i = 1, 3, ... (0-based): a later pair
\* of the same field overwrites an earlier one
HmsetHash(a) ==
    LET idx(f) == {i \in 2..Len(a) : i % 2 = 0 /\ a[i] = f}
        last(f) == CHOOSE i \in idx(f) : \A j \in idx(f) : j <= i
    IN [f \in {a[i] : i \in {j \in 2..Len(a) : j % 2 = 0}} |-> a[last(f) + 1]]

\* hmset checking the parity of its argument count only
hmsetArgsWrongParityOnly(a) == Len(a) % 2 # 1

\* if len(v) <= 1 || len(v)%2 != 1
hmsetArgsWrong(a) == Len(a) <= 1 \/ Len(a) % 2 # 1

hmset(p) ==
    /\ cmd[p] = "hmset"
    /\ CASE pc[p] = "start" ->
              IF hmsetArgsWrong(v[p])
              THEN Reject(p, ErrWrongNumberArgument(NameHmset))
              ELSE Acquire(p)
         [] pc[p] = "has" ->
              LET h == Has(db, key(p))
              IN /\ UNCHANGED db
                 /\ IF WrongType(h) THEN Finish(p, ErrWrongType)
                    ELSE Goto(p, "put", [loc[p] EXCEPT !.hash = HmsetHash(v[p])])
         [] pc[p] = "put" ->
              /\ db' = PutHash(db, key(p), Hash, loc[p].hash)
              /\ Finish(p, OkSimpleString)
         [] OTHER -> FALSE

hset(p) ==
    /\ cmd[p] = "hset"
    /\ CASE pc[p] = "start" -> Acquire(p)
         [] pc[p] = "has" ->
              LET h == Has(db, key(p))
              IN /\ UNCHANGED db
                 /\ IF WrongType(h) THEN Finish(p, ErrWrongType)
                    ELSE Goto(p, "get", loc[p])
         [] pc[p] = "get" ->
              LET hash == GetFields(db, key(p), <<v[p][2]>>)
              IN /\ UNCHANGED db
                 /\ Goto(p, "put",
                         [loc[p] EXCEPT
                            !.fieldExists = (Len(hash[v[p][2]]) # 0),
                            !.hash = [hash EXCEPT ![v[p][2]] = v[p][3]]])
         [] pc[p] = "put" ->
              /\ db' = PutHash(db, key(p), Hash, loc[p].hash)
              /\ IF ~loc[p].fieldExists THEN Finish(p, OneInteger)
                 ELSE Finish(p, ZeroInteger)
         [] OTHER -> FALSE

hsetnx(p) ==
    /\ cmd[p] = "hsetnx"
    /\ CASE pc[p] = "start" -> Acquire(p)
         [] pc[p] = "has" ->
              LET h == Has(db, key(p))
              IN /\ UNCHANGED db
                 /\ IF WrongType(h) THEN Finish(p, ErrWrongType)
                    ELSE Goto(p, "get", loc[p])
         [] pc[p] = "get" ->
              LET hash == GetFields(db, key(p), <<v[p][2]>>)
              IN /\ UNCHANGED db
                 /\ IF Len(hash[v[p][2]]) # 0 THEN Finish(p, ZeroInteger)
                    ELSE Goto(p, "put",
                              [loc[p] EXCEPT !.hash = [hash EXCEPT ![v[p][2]] = v[p][3]]])
         [] pc[p] = "put" ->
              /\ db' = PutHash(db, key(p), Hash, loc[p].hash)
              /\ Finish(p, OneInteger)
         [] OTHER -> FALSE

hstrlen(p) ==
    /\ cmd[p] = "hstrlen"
    /\ CASE pc[p] = "start" -> Acquire(p)
         [] pc[p] = "has" ->
              LET h == Has(db, key(p))
              IN /\ UNCHANGED db
                 /\ IF ~h.exists THEN Finish(p, ZeroInteger)
                    ELSE IF WrongType(h) THEN Finish(p, ErrWrongType)
                    ELSE Goto(p, "get", loc[p])
         [] pc[p] = "get" ->
              LET hash == GetFields(db, key(p), <<v[p][2]>>)
              IN /\ UNCHANGED db
                 /\ Finish(p, Integer(Len(hash[v[p][2]])))
         [] OTHER -> FALSE

\* ----------------------------------------------------------- specification

Handle(p) ==
    \/ hdel(p)
    \/ hexists(p)
    \/ hget(p)
    \/ hgetall(p)
    \/ hincrby(p)
    \/ hincrbyfloat(p)
    \/ hkeys(p)
    \/ hvals(p)
    \/ hlen(p)
    \/ hmget(p)
    \/ hmset(p)
    \/ hset(p)
    \/ hsetnx(p)
    \/ hstrlen(p)
    \/ Return(p)

\* One connection: commands run one after another.
Next == (\E c \in Calls : Dispatch(1, c)) \/ Handle(1)

Spec == Init /\ [][Next]_vars

\* NProc connections, their handlers' steps interleaved.
NextConc == \E p \in Procs : (\E c \in ConcCalls : Dispatch(p, c)) \/ Handle(p)

SpecConc == Init /\ [][NextConc]_vars

\* The commands of the fair specification: one key, one field, one value.
LiveCalls == CallsOver({KeyA}, {FieldF}, {ValX}, {ValOne}, 1, 1)

NextLive == \E p \in Procs : (\E c \in LiveCalls : Dispatch(p, c)) \/ Handle(p)

\* NProc connections under fair scheduling: a handler that can take a step
\* again and again takes one (the goroutine is scheduled, and the RWMutex
\* does not pass over a waiting Lock or RLock for ever). Clients are not
\* obliged to send commands.
SpecLive ==
    Init /\ [][NextLive]_vars /\ \A p \in Procs : SF_vars(Handle(p))

\* ------------------------------------------------------------- vocabulary

\* The field entries of a record key: the store's keys under its prefix.
FieldEntries(d, k) == BytesPrefix(d, encodeFieldKey(k, <<>>))

\* Field f of key k has a field entry.
HasField(d, k, f) == encodeFieldKey(k, f) \in DOMAIN d

\* Key k has a metadata entry of the hash type.
IsHash(d, k) == Has(d, k).exists /\ Has(d, k).tipe = Hash

\* The handler has made a storage call and has another one to make.
Mid(p) == pc[p] \in {"get", "put", "del1", "del2"}

\* The handler's next step is a storage call.
AtCall(p) == pc[p] \in {"has", "get", "put", "del1", "del2"}

\* ------------------------------------------------------------------ claims

\* C1: two commands on the same database, at least one of them a write
\* command, never interleave their storage calls: while one is between two
\* of its storage calls the other makes none.
C1_NoInterleaving ==
    \A p, q \in Procs :
        (p # q /\ Mid(p) /\ AtCall(q)) =>
            (cmd[p] \notin WriteCmds /\ cmd[q] \notin WriteCmds)

\* Two write commands at once: one about to write, the other kept waiting.
C1_Witness ==
    \E p, q \in Procs :
        /\ p # q
        /\ cmd[p] \in WriteCmds /\ pc[p] = "put"
        /\ cmd[q] \in WriteCmds /\ pc[q] = "start"

\* C2: whenever no write command holds the exclusive lock, every record key
\* with a metadata entry of the hash type has at least one field entry.
C2_HashHasField ==
    (\A p \in Procs : lock[p] # "W") =>
        \A k \in Keys : IsHash(db, k) => FieldEntries(db, k) # {}

\* C3: a handler whose arguments passed validation, on a key whose metadata
\* entry is of another type, replies WrongType and leaves the store as it was.
C3_WrongTypeNoMutation ==
    \A p \in Procs :
        (lock[p] # "" /\ Has(pre[p], key(p)).exists
                      /\ Has(pre[p], key(p)).tipe # Hash) =>
            /\ db = pre[p]
            /\ pc[p] = "done" => out[p] = ErrWrongType

\* A write command has replied WrongType for a key holding a string.
C3_Witness ==
    \E p \in Procs :
        /\ pc[p] = "done" /\ cmd[p] \in WriteCmds /\ out[p] = ErrWrongType
        /\ Has(db, key(p)).tipe = String

\* C4: when hincrby or hincrbyfloat replies with an error the store is as it
\* was when the command began.
C4_IncrErrorNoMutation ==
    \A p \in Procs :
        (pc[p] = "done" /\ cmd[p] \in {"hincrby", "hincrbyfloat"}
                        /\ IsError(out[p])) =>
            db = pre[p]

\* hincrby has replied NotValidInteger for a stored value that does not
\* parse ("x"), which the field still holds.
C4_Witness ==
    \E p \in Procs :
        /\ pc[p] = "done" /\ cmd[p] = "hincrby" /\ out[p] = ErrNotValidInt
        /\ lock[p] = "W"
        /\ get(db, encodeFieldKey(key(p), v[p][2])) = ValX

\* C5: on a record key without a metadata entry, hlen, hstrlen, hexists and
\* hdel reply 0, hget replies nil, and hgetall, hkeys and hvals reply the
\* empty array.
C5_AbsentKeyReplies ==
    \A p \in Procs :
        (pc[p] = "done" /\ lock[p] # "" /\ ~Has(pre[p], key(p)).exists) =>
            CASE cmd[p] \in {"hlen", "hstrlen", "hexists", "hdel"} ->
                   out[p] = ZeroInteger
              [] cmd[p] = "hget" -> out[p] = NilBulkString
              [] cmd[p] \in {"hgetall", "hkeys", "hvals"} -> out[p] = EmptyArray
              [] OTHER -> TRUE

\* The handler of command c has replied, on a key that was absent or a hash.
Replied(p, c) ==
    /\ pc[p] = "done" /\ cmd[p] = c /\ lock[p] # ""
    /\ ~WrongType(Has(pre[p], key(p)))

\* The field entry of (key, field argument i) of the command of p
FieldKey(p, i) == encodeFieldKey(key(p), v[p][i])

\* C6: hset replies 1 if the field was newly created and 0 if it already
\* existed, and stores the value; a following hget of the field replies
\* with the stored value.
C6_SetReply ==
    \A p \in Procs :
        /\ Replied(p, "hset") =>
              /\ out[p] = IF HasField(pre[p], key(p), v[p][2]) THEN ZeroInteger
                          ELSE OneInteger
              /\ HasField(db, key(p), v[p][2]) /\ db[FieldKey(p, 2)] = v[p][3]
        /\ (Replied(p, "hget") /\ IsHash(pre[p], key(p))
                               /\ HasField(pre[p], key(p), v[p][2])) =>
              out[p] = BulkString(pre[p][FieldKey(p, 2)])

\* C7: hsetnx writes only if the field is absent and replies 1 if it wrote,
\* 0 otherwise; a field that exists keeps its value.
C7_SetnxReply ==
    \A p \in Procs :
        Replied(p, "hsetnx") =>
            IF HasField(pre[p], key(p), v[p][2])
            THEN out[p] = ZeroInteger /\ db = pre[p]
            ELSE /\ out[p] = OneInteger
                 /\ HasField(db, key(p), v[p][2]) /\ db[FieldKey(p, 2)] = v[p][3]

\* C8: hmset stores the value last given for each of its fields; hmget
\* replies with one entry per requested field, in request order: the
\* field's value if it is a field of the key, nil if it is not.
C8_MsetMget ==
    \A p \in Procs :
        /\ Replied(p, "hmset") =>
              /\ out[p] = OkSimpleString
              /\ \A f \in DOMAIN HmsetHash(v[p]) :
                    /\ HasField(db, key(p), f)
                    /\ db[encodeFieldKey(key(p), f)] = HmsetHash(v[p])[f]
        /\ Replied(p, "hmget") =>
              out[p] = Array([i \in 1..(Len(v[p]) - 1) |->
                                IF HasField(pre[p], key(p), v[p][i + 1])
                                THEN BulkString(pre[p][FieldKey(p, i + 1)])
                                ELSE NilBulkString])

\* C9: hdel on a hash replies with the number of requested fields that
\* exist, deletes every requested field, and hexists of a field that does
\* not exist replies 0.
C9_DelReply ==
    \A p \in Procs :
        /\ (Replied(p, "hdel") /\ IsHash(pre[p], key(p))) =>
              /\ out[p] = Integer(Cardinality({f \in Range(Tail(v[p])) :
                                                  HasField(pre[p], key(p), f)}))
              /\ \A f \in Range(Tail(v[p])) : ~HasField(db, key(p), f)
        /\ (Replied(p, "hexists") /\ ~HasField(pre[p], key(p), v[p][2])) =>
              out[p] = ZeroInteger

CurrentInt(p) ==
    IF HasField(pre[p], key(p), v[p][2])
    THEN ParseInt(pre[p][FieldKey(p, 2)])
    ELSE [ok |-> TRUE, val |-> 0]

\* C11: whenever the delta and the current value of the field both parse as
\* integers (an absent field counts as 0), hincrby replies the sum of the
\* current value and the delta, and the field then holds the decimal string
\* of that sum.
C11_IncrSum ==
    \A p \in Procs :
        (Replied(p, "hincrby") /\ CurrentInt(p).ok) =>
            LET sum == CurrentInt(p).val + ParseInt(v[p][3]).val
            IN /\ out[p] = Integer(sum)
               /\ get(db, FieldKey(p, 2)) = FormatInt(sum)

\* The (field, value) pairs of the hmset that p has run (a repeated field
\* keeps its last value)
PairsWritten(p) ==
    {[Key |-> f, Value |-> HmsetHash(v[p])[f]] : f \in DOMAIN HmsetHash(v[p])}

\* C12: after one hmset to a key that had no metadata entry, the pairs that
\* hgetall of the key gets from GetHashAsArray are exactly the pairs
\* written, as a set.
C12_MsetGetall ==
    \A p \in Procs :
        (Replied(p, "hmset") /\ ~Has(pre[p], key(p)).exists) =>
            Range(GetHashAsArray(db, key(p))) = PairsWritten(p)

\* The argument counts C13 is about: hdel and hmget without a field
\* argument, hmset with an even number of arguments
TooFewOrEven(p) ==
    \/ cmd[p] \in {"hdel", "hmget"} /\ Len(v[p]) = 1
    \/ cmd[p] = "hmset" /\ Len(v[p]) % 2 = 0

\* The bytes of the command name of p
NameOf(p) ==
    CASE cmd[p] = "hdel" -> NameHdel
      [] cmd[p] = "hmget" -> NameHmget
      [] cmd[p] = "hmset" -> NameHmset

\* C13: hdel and hmget with no field argument, and hmset with an even
\* argument count, never take the lock and never make a storage call, and
\* reply WrongNumberOfArguments naming the command, the store unchanged.
C13_ArgCountRejected ==
    \A p \in Procs :
        TooFewOrEven(p) =>
            /\ lock[p] = ""
            /\ pc[p] \in {"start", "done"}
            /\ pc[p] = "done" =>
                  /\ out[p] = ErrWrongNumberArgument(NameOf(p))
                  /\ db = pre[p]

\* hdel without a field argument has been rejected, on a store that holds
\* a hash.
C13_Witness ==
    \E p \in Procs :
        /\ cmd[p] = "hdel" /\ Len(v[p]) = 1 /\ pc[p] = "done"
        /\ IsHash(db, key(p))

\* C14: a handler that has returned holds no lock; under fair scheduling
\* every handler that has been invoked gets past its Lock / RLock, and every
\* lock that is held is released.
C14_LockReleased ==
    /\ [](\A p \in Procs : pc[p] = "idle" => lock[p] = "")
    /\ \A p \in Procs : (pc[p] = "start") ~> (pc[p] # "start")
    /\ \A p \in Procs : (lock[p] # "") ~> (lock[p] = "")

\* A write handler inside Lock() waits for a read handler to unlock.
C14_Witness ==
    \E p, q \in Procs :
        /\ pc[p] = "start" /\ cmd[p] \in WriteCmds
        /\ lock[q] = "R" /\ lock[p] = "w"

\* The store holds no field entry of any record key.
NoFieldEntry(d) == \A e \in DOMAIN d : Head(e) # ValuePrefix

\* C15: the prefix scan of a record key returns exactly the fields written
\* under that key and not deleted since, under their original names, and
\* no entry of another record key. Stated for the scans that follow an
\* hmset into a store without field entries, where the fields written under
\* each key are those of the hmset.
C15_ScanExact ==
    \A p \in Procs :
        (Replied(p, "hmset") /\ NoFieldEntry(pre[p])) =>
            \A k \in Keys :
                Range(GetFieldNames(db, k)) =
                    IF k = key(p) THEN DOMAIN HmsetHash(v[p]) ELSE {}

\* No handler holds the lock.
Quiet == \A p \in Procs : lock[p] = ""

\* Store key e is present in both stores with one value, or absent in both.
SameEntry(d1, d2, e) ==
    /\ e \in DOMAIN d1 <=> e \in DOMAIN d2
    /\ e \in DOMAIN d1 => d1[e] = d2[e]

\* C16: DeleteHash of a record key deletes the metadata entry and every
\* field entry of that key, and leaves the metadata entry of every other
\* record key and the field entries of every other hash as they were.
C16_DeleteHashFrame ==
    Quiet =>
        \A k \in Keys :
            LET d2 == DeleteHash(db, k)
            IN /\ encodeMetaKey(k) \notin DOMAIN d2
               /\ FieldEntries(d2, k) = {}
               /\ \A k2 \in Keys \ {k} :
                     /\ SameEntry(db, d2, encodeMetaKey(k2))
                     /\ IsHash(db, k2) =>
                           \A f \in Fields :
                               SameEntry(db, d2, encodeFieldKey(k2, f))

\* C17: a read handler holds the lock in shared mode only and a write
\* handler in exclusive mode only, each across all its storage calls; the
\* store changes only by a step of a write handler that holds the exclusive
\* lock, and never while a handler holds the shared lock.
C17_LockModes ==
    /\ [](\A p \in Procs :
            /\ AtCall(p) => lock[p] \in {"R", "W"}
            /\ lock[p] # "" =>
                  lock[p] \in IF cmd[p] \in WriteCmds THEN {"w", "W"}
                              ELSE {"r", "R"})
    /\ [][db' # db =>
            /\ \A q \in Procs : lock[q] # "R"
            /\ \E p \in Procs :
                  /\ lock[p] = "W" /\ cmd[p] \in WriteCmds
                  /\ pc'[p] # pc[p]]_vars

\* A write handler has changed the store while a read handler waits for
\* the lock.
C17_Witness ==
    \E p, q \in Procs :
        /\ lock[p] = "W" /\ db # pre[p]
        /\ pc[q] = "start" /\ cmd[q] \in ReadCmds

\* hmset of p has returned, on a key that is absent or a hash.
HmsetReturned(p) ==
    /\ pc[p] = "done" /\ cmd[p] = "hmset"
    /\ ~WrongType(Has(pre[p], key(p)))

\* C18: hmset with an odd argument count of three or more (the key and one
\* or more field/value pairs) replies OK and leaves the metadata entry of
\* the key with the hash type; hmset with the key alone is rejected with
\* WrongNumberOfArguments and leaves the store as it was.
C18_OddCount ==
    \A p \in Procs :
        /\ (HmsetReturned(p) /\ Len(v[p]) % 2 = 1 /\ Len(v[p]) >= 3) =>
              /\ out[p] = OkSimpleString
              /\ IsHash(db, key(p))
        /\ (HmsetReturned(p) /\ Len(v[p]) = 1) =>
              /\ out[p] = ErrWrongNumberArgument(NameHmset)
              /\ lock[p] = "" /\ db = pre[p]

\* hmset with two pairs has created the metadata entry of an absent key.
C18_Witness ==
    \E p \in Procs :
        /\ HmsetReturned(p) /\ Len(v[p]) = 5
        /\ ~Has(pre[p], key(p)).exists
        /\ out[p] = OkSimpleString /\ IsHash(db, key(p))

\* C18 as the specification words it: hmset with any odd argument count,
\* the key alone included, replies OK and leaves the metadata entry of the
\* key with the hash type.
C18_AnyOddCount ==
    \A p \in Procs :
        (HmsetReturned(p) /\ Len(v[p]) % 2 = 1) =>
            /\ out[p] = OkSimpleString
            /\ IsHash(db, key(p))

\* The handlers that write through PutHash
PutCmds == {"hincrby", "hincrbyfloat", "hmset", "hset", "hsetnx"}

\* The store holds every put of the PutHash batch of p, and apart from
\* those is as the handler found it.
AllPut(p) ==
    LET hash == loc[p].hash
        fks == {encodeFieldKey(key(p), f) : f \in DOMAIN hash}
        batch == {encodeMetaKey(key(p))} \cup fks
    IN /\ DOMAIN db = DOMAIN pre[p] \cup batch
       /\ db[encodeMetaKey(key(p))] = encodeMetadata(Hash)
       /\ \A f \in DOMAIN hash : db[encodeFieldKey(key(p), f)] = hash[f]
       /\ \A e \in DOMAIN pre[p] \ batch : db[e] = pre[p][e]

\* Store d with the metadata entry and every field entry of k deleted
AllDeleted(d, k) ==
    [e \in DOMAIN d \ ({encodeMetaKey(k)} \cup FieldEntries(d, k)) |-> d[e]]

\* C19: at every point where the process can stop, the store holds all of
\* the changes of a PutHash or none of them, and all of the deletions of a
\* DeleteHash or none of them.
C19_OneBatch ==
    /\ \A p \in Procs :
          (lock[p] = "W" /\ cmd[p] \in PutCmds) => (db = pre[p] \/ AllPut(p))
    /\ Quiet =>
          \A k \in Keys :
              \A i \in 1..Len(DeleteHashSteps(db, k)) :
                  DeleteHashSteps(db, k)[i] \in {db, AllDeleted(db, k)}

\* PutHash has written a metadata entry and two field entries in its batch,
\* on a store where DeleteHash of the other key has entries to delete.
C19_Witness ==
    \E p \in Procs :
        /\ lock[p] = "W" /\ cmd[p] = "hmset" /\ pc[p] = "done"
        /\ Cardinality(DOMAIN db \ DOMAIN pre[p]) = 3
        /\ AllPut(p)
        /\ \E k \in Keys \ {key(p)} : IsHash(db, k) /\ FieldEntries(db, k) # {}

\* The handlers that write one field
SingleFieldCmds == {"hset", "hsetnx", "hincrby", "hincrbyfloat"}

\* C20: hset, hsetnx, hincrby and hincrbyfloat on field f of key k change
\* at most the field entry of (k, f) and the metadata entry of k: every
\* other field of k, every field of every other hash and the metadata entry
\* of every other key are as before.
C20_SingleFieldFrame ==
    \A p \in Procs :
        (pc[p] = "done" /\ cmd[p] \in SingleFieldCmds) =>
            /\ \A f \in Fields \ {v[p][2]} :
                  SameEntry(pre[p], db, encodeFieldKey(key(p), f))
            /\ \A k \in Keys \ {key(p)} :
                  /\ SameEntry(pre[p], db, encodeMetaKey(k))
                  /\ IsHash(pre[p], k) =>
                        \A f \in Fields :
                            SameEntry(pre[p], db, encodeFieldKey(k, f))

====
